---- MODULE Spec2Model ----
(***************************************************************************)
(* The request-admission pipeline of the Gort REST service                 *)
(* (service/service.go): the logging middleware with its                   *)
(* StatusCaptureWriter, the token-observing middleware, the authenticate,  *)
(* bootstrap and healthz handlers, and respondAndLogError.                 *)
(* Logging (logrus) and telemetry counters are write-only side channels    *)
(* and are not part of the state.                                          *)
(***************************************************************************)
EXTENDS Integers, Sequences, FiniteSets, TLC

(***************************************************************************)
(* Bounds of the model.                                                    *)
(***************************************************************************)
\* Requests the server accepts during one run; each has a goroutine of its
\* own, and all of them may be in flight together.
MaxRequests == 2
\* Sentinels one error value can match at once (wrapping depth).
MaxWrap == 2
\* Write calls a handler makes on its response writer.
MaxWrites == 2

(***************************************************************************)
(* HTTP status codes used by the service (net/http names).                 *)
(***************************************************************************)
StatusOK == 200
StatusBadRequest == 400
StatusUnauthorized == 401
StatusForbidden == 403
StatusNotFound == 404
StatusNotAcceptable == 406
StatusConflict == 409
StatusExpectationFailed == 417
StatusInternalServerError == 500
StatusNotImplemented == 501
StatusServiceUnavailable == 503
\* TTL, in minutes, of the token handleAuthenticate asks for.
TokenTTLMinutes == 10

(***************************************************************************)
(* Response writers.  A writer value is the StatusCaptureWriter of one     *)
(* request together with the http.ResponseWriter it wraps:                 *)
(*   status, bytelen  the two cells of the logging middleware              *)
(*   code             the status line on the wire (0: none written yet)    *)
(*   body             the chunks handed to the wrapped writer, in order    *)
(*   headerCalls      calls of WriteHeader                                 *)
(***************************************************************************)
NewWriter ==
  [status |-> 200, bytelen |-> 0, code |-> 0, body |-> << >>, headerCalls |-> 0]

\* len() of a payload, in bytes.  Fixed strings have their real length;
\* the other payloads are named by a text and have a representative length.
ByteLen(s) ==
  CASE s = "Unauthorized\n" -> 13
    [] s = "No such user\n" -> 13
    [] s = "Forbidden\n" -> 10
    [] s = "Service already bootstrapped\n" -> 29
    [] s = "Corrupt JSON payload\n" -> 21
    [] s = "{\"healthy\":false}\n" -> 18
    [] s = "{\"healthy\":true}\n" -> 17
    [] OTHER -> 40

\* StatusCaptureWriter.WriteHeader: the cell takes the code, the call is
\* forwarded; the wrapped writer keeps the first status line it is given.
SCW_WriteHeader(w, statusCode) ==
  [w EXCEPT !.status = statusCode,
            !.code = IF w.code = 0 THEN statusCode ELSE w.code,
            !.headerCalls = w.headerCalls + 1]

\* StatusCaptureWriter.Write: the cell takes len(bytes), the call is
\* forwarded; the wrapped writer sends an implicit 200 when no header was
\* written before the first byte.
SCW_Write(w, bytes) ==
  [w EXCEPT !.bytelen = ByteLen(bytes),
            !.code = IF w.code = 0 THEN StatusOK ELSE w.code,
            !.body = Append(w.body, bytes)]

\* http.Error(w, msg, code): WriteHeader(code), then Fprintln(w, msg).
\* msg is given with its trailing newline.
httpError(w, msg, code) == SCW_Write(SCW_WriteHeader(w, code), msg)

\* json.NewEncoder(w).Encode(v): one Write of the encoded value.
jsonEncode(w, payload) == SCW_Write(w, payload)

\* The status the caller receives: net/http sends 200 when the handler
\* chain returns without having written anything.
ActualStatus(w) == IF w.code = 0 THEN StatusOK ELSE w.code

(***************************************************************************)
(* Error values.  An error is the set of sentinels gerrs.Is finds in it    *)
(* and the text err.Error() returns.                                       *)
(***************************************************************************)
\* The sentinels respondAndLogError names.
SwitchSentinels ==
  { "ErrEmptyBundleName", "ErrEmptyBundleVersion", "ErrEmptyGroupName",
    "ErrEmptyUserName", "ErrMissingValue", "ErrFieldRequired",
    "ErrNoSuchBundle", "ErrNoSuchGroup", "ErrNoSuchToken", "ErrNoSuchUser",
    "ErrAdminUndeletable",
    "ErrBundleExists", "ErrGroupExists", "ErrUserExists",
    "ErrNotImplemented",
    "ErrDataAccessNotInitialized", "ErrDataAccessCantInitialize",
    "ErrDataAccessCantConnect", "ErrDataAccess",
    "ErrUnmarshal" }

\* Sentinels of the role resource, which respondAndLogError does not name.
RoleSentinels == { "ErrEmptyRoleName", "ErrNoSuchRole", "ErrRoleExists" }

Sentinels == SwitchSentinels \cup RoleSentinels

\* Texts of err.Error().
ErrorTexts == { "pq: connection refused", "unexpected EOF" }

ErrorValues ==
  { [is |-> S, text |-> t] :
      S \in { X \in SUBSET Sentinels : Cardinality(X) <= MaxWrap },
      t \in ErrorTexts }

\* gerrs.Is(err, target)
Is(err, target) == target \in err.is

\* The status respondAndLogError's switch selects: the first case that
\* matches, in source order.
SwitchStatus(err) ==
  IF \/ Is(err, "ErrEmptyBundleName") \/ Is(err, "ErrEmptyBundleVersion")
     \/ Is(err, "ErrEmptyGroupName") \/ Is(err, "ErrEmptyUserName")
     \/ Is(err, "ErrMissingValue") \/ Is(err, "ErrFieldRequired")
    THEN StatusExpectationFailed
  ELSE IF \/ Is(err, "ErrNoSuchBundle") \/ Is(err, "ErrNoSuchGroup")
          \/ Is(err, "ErrNoSuchToken") \/ Is(err, "ErrNoSuchUser")
    THEN StatusNotFound
  ELSE IF Is(err, "ErrAdminUndeletable")
    THEN StatusForbidden
  ELSE IF \/ Is(err, "ErrBundleExists") \/ Is(err, "ErrGroupExists")
          \/ Is(err, "ErrUserExists")
    THEN StatusConflict
  ELSE IF Is(err, "ErrNotImplemented")
    THEN StatusNotImplemented
  ELSE IF \/ Is(err, "ErrDataAccessNotInitialized")
          \/ Is(err, "ErrDataAccessCantInitialize")
          \/ Is(err, "ErrDataAccessCantConnect") \/ Is(err, "ErrDataAccess")
    THEN StatusInternalServerError
  ELSE IF Is(err, "ErrUnmarshal")
    THEN StatusNotAcceptable
  ELSE StatusInternalServerError

\* The message respondAndLogError writes: err.Error(), replaced only in the
\* ErrUnmarshal case (which is reached only when no earlier case matched).
SwitchMessage(err) ==
  IF SwitchStatus(err) = StatusNotAcceptable
    THEN "Corrupt JSON payload\n"
    ELSE err.text

\* respondAndLogError(ctx, w, err)
respondAndLogError(w, err) == httpError(w, SwitchMessage(err), SwitchStatus(err))

(***************************************************************************)
(* Requests.  A RequestURI is the sequence of its parts, "?" being a part  *)
(* of its own.                                                             *)
(***************************************************************************)
Reqs == 1..MaxRequests

\* The requests sent to the server: the RequestURI and the value of the
\* X-Session-Token header ("" when the header is absent).
Requests ==
  { [uri |-> <<"/v2/authenticate">>, token |-> ""],
    [uri |-> <<"/v2/bootstrap">>, token |-> ""],
    [uri |-> <<"/v2/healthz">>, token |-> ""],
    [uri |-> <<"/v2/healthz", "?", "verbose">>, token |-> "bogus"],
    [uri |-> <<"/v2/metrics">>, token |-> "tok-admin"],
    [uri |-> <<"/v2/roles/foo">>, token |-> ""],
    [uri |-> <<"/v2/roles/foo">>, token |-> "bogus"],
    [uri |-> <<"/v2/roles/foo">>, token |-> "tok-admin"],
    [uri |-> <<"/v2/roles/foo", "?", "/v2/healthz">>, token |-> "bogus"] }

\* strings.Split(s, "?")[0]: the parts before the first "?".
RECURSIVE SplitFirst(_)
SplitFirst(s) ==
  IF s = << >> \/ Head(s) = "?" THEN << >>
  ELSE <<Head(s)>> \o SplitFirst(Tail(s))

exemptEndpoints ==
  { <<"/v2/authenticate">>, <<"/v2/bootstrap">>, <<"/v2/healthz">>,
    <<"/v2/metrics">> }

\* The route mux selects: it matches the URL's path, which is the
\* RequestURI without its query.
Route(uri) ==
  LET path == SplitFirst(uri) IN
  CASE path = <<"/v2/authenticate">> -> "authenticate"
    [] path = <<"/v2/bootstrap">> -> "bootstrap"
    [] path = <<"/v2/healthz">> -> "healthz"
    [] path = <<"/v2/metrics">> -> "metrics"
    [] OTHER -> "roles"

Method(uri) ==
  IF Route(uri) \in {"authenticate", "bootstrap"} THEN "POST" ELSE "GET"

(***************************************************************************)
(* State.                                                                  *)
(***************************************************************************)
VARIABLES
  users,       \* DAL: usernames
  groups,      \* DAL: group names
  groupUsers,  \* DAL: <<group, user>> memberships
  roles,       \* DAL: role names
  groupRoles,  \* DAL: <<group, role>> grants
  rolePerms,   \* DAL: <<role, bundle, permission>> grants
  tokens,      \* DAL: unexpired tokens, [Token, User, TTL]
  pc,          \* where each request's goroutine is
  req,         \* the request: [uri, token]
  w,           \* the request's StatusCaptureWriter and what it wraps
  loc,         \* the goroutine's locals
  emitted,     \* RequestEvents handed to the receiver of Requests(), per request
  served,      \* what the callers of the finished requests got, in short
  merr, mw,    \* respondAndLogError applied on its own: its input and output
  rlast,       \* role routes: the last PUT or DELETE of each role name
  rresp        \* role routes: the last request and what it was answered

dalVars == <<users, groups, groupUsers, roles, groupRoles, rolePerms, tokens>>
roleVars == <<rlast, rresp>>
vars == <<users, groups, groupUsers, roles, groupRoles, rolePerms, tokens,
          pc, req, w, loc, emitted, served, merr, mw, rlast, rresp>>

NoReq == [uri |-> << >>, token |-> ""]
NoError == [is |-> {}, text |-> ""]
NoEvent == [UserID |-> "", Request |-> << >>, Status |-> 0, Size |-> 0]
\* served: how many bootstrap requests were answered 200, and whether a
\* DAL call of a finished health probe returned an error.
NoneServed == [bootstrapped |-> 0, probeFault |-> FALSE]

\* Locals of a request's goroutine:
\*   invoked     calls of next.ServeHTTP made by tokenObservingMiddleware
\*   storeCalls  calls of TokenEvaluate made by tokenObservingMiddleware
\*   user        username (handleAuthenticate, handleBootstrap), testUser.Username
\*   i           index into adminPermissions
\*   calls       the DAL calls the handler made, with their outcomes
\*   e           the RequestEvent the logging middleware built
NewLoc ==
  [invoked |-> 0, storeCalls |-> 0, user |-> "", i |-> 1, calls |-> << >>,
   e |-> NoEvent]

adminUser == "admin"
adminGroup == "admin"
adminRole == "admin"
adminPermissions ==
  << "manage_commands", "manage_groups", "manage_roles", "manage_users" >>

\* Usernames handleHealthz derives: "healthz" and the first 8 characters of
\* a bcrypt hash, of which only the last varies.
HealthzNames == { "healthz$2a$04$A", "healthz$2a$04$B" }

\* Usernames sent to /v2/authenticate.
AuthNames == { "admin", "mallory" }

\* Bodies sent to /v2/bootstrap that decode.
BootstrapPayloads ==
  { [Email |-> "", FullName |-> "", Username |-> "", Password |-> ""],
    [Email |-> "root@example.com", FullName |-> "Root", Username |-> "root",
     Password |-> "hunter2"] }

\* Errors a failing DAL call returns.
DalFailures ==
  { [is |-> {"ErrDataAccess"}, text |-> "pq: connection refused"] }

ErrUnmarshal == [is |-> {"ErrUnmarshal"}, text |-> "unmarshal error"]
ErrUserExists == [is |-> {"ErrUserExists"}, text |-> "user already exists"]
ErrGroupExists == [is |-> {"ErrGroupExists"}, text |-> "group already exists"]
ErrRoleExists == [is |-> {"ErrRoleExists"}, text |-> "role already exists"]
ErrNoSuchUser == [is |-> {"ErrNoSuchUser"}, text |-> "no such user"]
ErrNoSuchGroup == [is |-> {"ErrNoSuchGroup"}, text |-> "no such group"]
ErrNoSuchRole == [is |-> {"ErrNoSuchRole"}, text |-> "no such role"]
ErrRandom == [is |-> {}, text |-> "unexpected EOF"]

\* Role names and permissions the role routes are called with, and the
\* bundle the permissions belong to.
RoleNames == { "foo", "bar" }
PermissionNames == { "testpermission", "testpermission2" }
testbundle == "testbundle"

\* rresp before the first request to a role route.  granted: the
\* permissions the role held when the request arrived.
NoRoleResponse ==
  [method |-> "", role |-> "", perm |-> "", status |-> 0, granted |-> {}]

\* What the DAL holds when the server starts: nothing (a fresh
\* deployment), or the admin bundle of an earlier bootstrap, with or
\* without a session of the admin user that has not expired.
FreshDAL ==
  [users |-> {}, groups |-> {}, groupUsers |-> {}, roles |-> {},
   groupRoles |-> {}, rolePerms |-> {}, tokens |-> {}]

BootstrappedDAL(sessions) ==
  [users |-> {adminUser}, groups |-> {adminGroup},
   groupUsers |-> {<<adminGroup, adminUser>>}, roles |-> {adminRole},
   groupRoles |-> {<<adminGroup, adminRole>>},
   rolePerms |-> { <<adminRole, "gort", adminPermissions[k]>> :
                     k \in 1..Len(adminPermissions) },
   tokens |-> sessions]

InitialDALs ==
  { FreshDAL, BootstrappedDAL({}),
    BootstrappedDAL({[Token |-> "tok-admin", User |-> adminUser,
                      TTL |-> TokenTTLMinutes]}) }

Init ==
  /\ \E d \in InitialDALs :
       /\ users = d.users /\ groups = d.groups /\ groupUsers = d.groupUsers
       /\ roles = d.roles /\ groupRoles = d.groupRoles
       /\ rolePerms = d.rolePerms /\ tokens = d.tokens
  /\ pc = [r \in Reqs |-> "idle"]
  /\ req = [r \in Reqs |-> NoReq]
  /\ w = [r \in Reqs |-> NewWriter]
  /\ loc = [r \in Reqs |-> NewLoc]
  /\ emitted = [r \in Reqs |-> 0]
  /\ served = NoneServed
  /\ merr = NoError /\ mw = NewWriter
  /\ rlast = [n \in RoleNames |-> "none"] /\ rresp = NoRoleResponse

InFlight == { r \in Reqs : pc[r] \notin {"idle", "done"} }

InFlightOn(route) == { r \in InFlight : Route(req[r].uri) = route }

\* The handler chain of r goes to `next`, with writer `nw` and locals `nl`.
Step(r, next, nw, nl) ==
  /\ pc' = [pc EXCEPT ![r] = next]
  /\ w' = [w EXCEPT ![r] = nw]
  /\ loc' = [loc EXCEPT ![r] = nl]
  /\ UNCHANGED <<req, emitted, served, merr, mw, roleVars>>

\* The locals after a DAL call `op` that ended in `outcome`.
Called(l, op, outcome) == [l EXCEPT !.calls = Append(l.calls, <<op, outcome>>)]

(***************************************************************************)
(* The data access layer, as the service uses it.  Every call is atomic    *)
(* and either succeeds or returns an error.                                *)
(***************************************************************************)
\* TokenEvaluate(ctx, token): whether the token is known and not expired.
TokenEvaluate(token) == \E t \in tokens : t.Token = token

\* TokenRetrieveByToken(ctx, token): the token, or the zero Token with an
\* error.
TokenRetrieveByToken(token) ==
  IF TokenEvaluate(token)
    THEN CHOOSE t \in tokens : t.Token = token
    ELSE [Token |-> "", User |-> "", TTL |-> 0]

\* The token TokenGenerate issues to a user.
TokenFor(username, ttl) ==
  [Token |-> IF username = "admin" THEN "tok-admin" ELSE "tok-other",
   User |-> username, TTL |-> ttl]

\* The errors UserCreate can return for `username` in this state.
UserCreateErrors(username) ==
  DalFailures \cup (IF username \in users THEN {ErrUserExists} ELSE {})

GroupCreateErrors(name) ==
  DalFailures \cup (IF name \in groups THEN {ErrGroupExists} ELSE {})

GroupAddUserErrors(group, username) ==
  DalFailures \cup (IF group \notin groups THEN {ErrNoSuchGroup} ELSE {})
              \cup (IF username \notin users THEN {ErrNoSuchUser} ELSE {})

RoleCreateErrors(name) ==
  DalFailures \cup (IF name \in roles THEN {ErrRoleExists} ELSE {})

GroupGrantRoleErrors(group, role) ==
  DalFailures \cup (IF group \notin groups THEN {ErrNoSuchGroup} ELSE {})
              \cup (IF role \notin roles THEN {ErrNoSuchRole} ELSE {})

RoleGrantPermissionErrors(role) ==
  DalFailures \cup (IF role \notin roles THEN {ErrNoSuchRole} ELSE {})

UserDeleteErrors(username) ==
  DalFailures \cup (IF username \notin users THEN {ErrNoSuchUser} ELSE {})

(***************************************************************************)
(* buildLoggingMiddleware, first half: the server accepts a request, the   *)
(* logging middleware sets its two cells and calls the next middleware.    *)
(***************************************************************************)
Receive(r) ==
  /\ pc[r] = "idle"
  /\ IF r = 1 THEN TRUE ELSE pc[r - 1] # "idle"
  /\ \E q \in Requests : req' = [req EXCEPT ![r] = q]
  /\ pc' = [pc EXCEPT ![r] = "gate"]
  /\ w' = [w EXCEPT ![r] = NewWriter]
  /\ loc' = [loc EXCEPT ![r] = NewLoc]
  /\ UNCHANGED <<dalVars, emitted, served, merr, mw, roleVars>>

(***************************************************************************)
(* tokenObservingMiddleware                                                *)
(***************************************************************************)
\* Mutant: the RequestURI is looked up with its query string.
ExemptWithoutSplit(uri) == uri \in exemptEndpoints

\* Whether the request's path is exempt from the token check.
Exempt(uri) == SplitFirst(uri) \in exemptEndpoints

\* Mutant: only the absent header is rejected.
TokenRejectedOnlyWhenAbsent(token) == token = ""

\* token == "" || !dataAccessLayer.TokenEvaluate(ctx, token)
TokenRejected(token) == token = "" \/ ~TokenEvaluate(token)

\* pc of the first step of the handler mux routes the request to.
HandlerEntry(uri) ==
  CASE Route(uri) = "authenticate" -> "auth_exists"
    [] Route(uri) = "bootstrap" -> "boot_list"
    [] Route(uri) = "healthz" -> "hz_create"
    [] Route(uri) = "metrics" -> "metrics"
    [] OTHER -> "roles"

Gate(r) ==
  /\ pc[r] = "gate"
  /\ UNCHANGED dalVars
  /\ LET uri == req[r].uri
         token == req[r].token
         passed == [loc[r] EXCEPT !.invoked = loc[r].invoked + 1]
         \* || short-circuits: the token store is asked only for a
         \* non-empty token
         asked == IF token = "" THEN loc[r]
                  ELSE [loc[r] EXCEPT !.storeCalls = loc[r].storeCalls + 1]
     IN IF Exempt(uri)
          THEN Step(r, HandlerEntry(uri), w[r], passed)
        ELSE IF TokenRejected(token)
          THEN Step(r, "log",
                    httpError(w[r], "Unauthorized\n", StatusUnauthorized), asked)
        ELSE Step(r, HandlerEntry(uri), w[r],
                  [asked EXCEPT !.invoked = asked.invoked + 1])

(***************************************************************************)
(* /v2/metrics (telemetry.PrometheusExporter) and the role routes, whose   *)
(* handlers are outside service.go: each writes one response.              *)
(***************************************************************************)
ServeMetrics(r) ==
  /\ pc[r] = "metrics"
  /\ UNCHANGED dalVars
  /\ Step(r, "log", SCW_Write(w[r], "metrics text"), loc[r])

ServeRole(r) ==
  /\ pc[r] = "roles"
  /\ UNCHANGED dalVars
  /\ \/ Step(r, "log", jsonEncode(w[r], "role json"), loc[r])
     \/ Step(r, "log", httpError(w[r], "No such role\n", StatusNotFound), loc[r])

(***************************************************************************)
(* handleAuthenticate                                                      *)
(***************************************************************************)
\* Decode the body, then UserExists.
AuthUserExists(r) ==
  /\ pc[r] = "auth_exists"
  /\ UNCHANGED dalVars
  /\ \/ \* the body does not decode
        Step(r, "log", respondAndLogError(w[r], ErrUnmarshal), loc[r])
     \/ \E username \in AuthNames :
          LET l == [loc[r] EXCEPT !.user = username] IN
          \/ \* UserExists fails: logged, and the handler returns
             \E e \in DalFailures :
               Step(r, "log", w[r], Called(l, "UserExists", "error"))
          \/ /\ username \notin users
             /\ Step(r, "log",
                     httpError(w[r], "No such user\n", StatusBadRequest),
                     Called(l, "UserExists", "false"))
          \/ /\ username \in users
             /\ Step(r, "auth_authn", w[r], Called(l, "UserExists", "true"))

AuthUserAuthenticate(r) ==
  /\ pc[r] = "auth_authn"
  /\ UNCHANGED dalVars
  /\ \/ \E e \in DalFailures :
          Step(r, "log", respondAndLogError(w[r], e),
               Called(loc[r], "UserAuthenticate", "error"))
     \/ \* the password does not match
        Step(r, "log", httpError(w[r], "Forbidden\n", StatusForbidden),
             Called(loc[r], "UserAuthenticate", "false"))
     \/ Step(r, "auth_token", w[r], Called(loc[r], "UserAuthenticate", "true"))

AuthTokenGenerate(r) ==
  /\ pc[r] = "auth_token"
  /\ \/ /\ \E e \in DalFailures :
             Step(r, "log", respondAndLogError(w[r], e),
                  Called(loc[r], "TokenGenerate", "error"))
        /\ UNCHANGED dalVars
     \/ /\ tokens' = tokens \cup {TokenFor(loc[r].user, TokenTTLMinutes)}
        /\ UNCHANGED <<users, groups, groupUsers, roles, groupRoles, rolePerms>>
        /\ Step(r, "log", jsonEncode(w[r], "token json"),
                Called(loc[r], "TokenGenerate", "ok"))

(***************************************************************************)
(* handleBootstrap                                                         *)
(***************************************************************************)
\* bootstrapUserWithDefaults(user); randOK is whether
\* data.GenerateRandomToken succeeds when it is asked for a password.
bootstrapUserWithDefaults(user, randOK) ==
  LET u1 == IF user.Email = "" THEN [user EXCEPT !.Email = "gort@localhost"]
            ELSE user
      u2 == IF u1.FullName = ""
              THEN [u1 EXCEPT !.FullName = "Gort Administrator"]
            ELSE u1
      u3 == [u2 EXCEPT !.Username = "admin"]
  IN IF u3.Password = ""
       THEN IF randOK
              THEN [user |-> [u3 EXCEPT !.Password = "generated"], failed |-> FALSE]
              ELSE [user |-> u3, failed |-> TRUE]
       ELSE [user |-> u3, failed |-> FALSE]

\* Mutant: the service counts as bootstrapped once the admin group exists.
AlreadyBootstrappedWithGroup(list) == list # {} /\ adminGroup \in groups

\* Mutant: one user is let through.
AlreadyBootstrappedOffByOne(list) == Cardinality(list) > 1

\* len(users) != 0
AlreadyBootstrapped(list) == list # {}

\* UserList, the "already bootstrapped" check, decoding and defaults.
BootUserList(r) ==
  /\ pc[r] = "boot_list"
  /\ UNCHANGED dalVars
  /\ \/ \E e \in DalFailures :
          Step(r, "log", respondAndLogError(w[r], e),
               Called(loc[r], "UserList", "error"))
     \/ /\ AlreadyBootstrapped(users)
        /\ Step(r, "log",
                httpError(w[r], "Service already bootstrapped\n", StatusConflict),
                Called(loc[r], "UserList", "users"))
     \/ /\ ~AlreadyBootstrapped(users)
        /\ \/ \* the body does not decode
              Step(r, "log", respondAndLogError(w[r], ErrUnmarshal),
                   Called(loc[r], "UserList", "empty"))
           \/ \E payload \in BootstrapPayloads, randOK \in BOOLEAN :
                LET res == bootstrapUserWithDefaults(payload, randOK)
                    l == Called(loc[r], "UserList", "empty")
                IN IF res.failed
                     THEN Step(r, "log", respondAndLogError(w[r], ErrRandom), l)
                     ELSE Step(r, "boot_user", w[r],
                               [l EXCEPT !.user = res.user.Username])

\* Mutant: the error of the DAL call is dropped.
BootAfterDroppingError(r, op, err, next) ==
  Step(r, next, w[r], Called(loc[r], op, "ok"))

\* Mutant: the error is answered, but the handler does not return.
BootAfterWithoutReturn(r, op, err, next) ==
  IF err # NoError
    THEN Step(r, next, respondAndLogError(w[r], err), Called(loc[r], op, "error"))
    ELSE Step(r, next, w[r], Called(loc[r], op, "ok"))

\* What handleBootstrap does after a DAL call that returned `err`
\* (NoError: nil): respond and return, or go on to `next`.
BootAfter(r, op, err, next) ==
  IF err # NoError
    THEN Step(r, "log", respondAndLogError(w[r], err), Called(loc[r], op, "error"))
    ELSE Step(r, next, w[r], Called(loc[r], op, "ok"))

BootUserCreate(r) ==
  /\ pc[r] = "boot_user"
  /\ UNCHANGED <<groups, groupUsers, roles, groupRoles, rolePerms, tokens>>
  /\ \/ \E e \in UserCreateErrors(loc[r].user) :
          /\ UNCHANGED users
          /\ BootAfter(r, "UserCreate", e, "boot_group")
     \/ /\ loc[r].user \notin users
        /\ users' = users \cup {loc[r].user}
        /\ BootAfter(r, "UserCreate", NoError, "boot_group")

BootGroupCreate(r) ==
  /\ pc[r] = "boot_group"
  /\ UNCHANGED <<users, groupUsers, roles, groupRoles, rolePerms, tokens>>
  /\ \/ \E e \in GroupCreateErrors(adminGroup) :
          /\ UNCHANGED groups
          /\ BootAfter(r, "GroupCreate", e, "boot_adduser")
     \/ /\ adminGroup \notin groups
        /\ groups' = groups \cup {adminGroup}
        /\ BootAfter(r, "GroupCreate", NoError, "boot_adduser")

BootGroupAddUser(r) ==
  /\ pc[r] = "boot_adduser"
  /\ UNCHANGED <<users, groups, roles, groupRoles, rolePerms, tokens>>
  /\ \/ \E e \in GroupAddUserErrors(adminGroup, loc[r].user) :
          /\ UNCHANGED groupUsers
          /\ BootAfter(r, "GroupAddUser", e, "boot_role")
     \/ /\ adminGroup \in groups /\ loc[r].user \in users
        /\ groupUsers' = groupUsers \cup {<<adminGroup, loc[r].user>>}
        /\ BootAfter(r, "GroupAddUser", NoError, "boot_role")

BootRoleCreate(r) ==
  /\ pc[r] = "boot_role"
  /\ UNCHANGED <<users, groups, groupUsers, groupRoles, rolePerms, tokens>>
  /\ \/ \E e \in RoleCreateErrors(adminRole) :
          /\ UNCHANGED roles
          /\ BootAfter(r, "RoleCreate", e, "boot_grantrole")
     \/ /\ adminRole \notin roles
        /\ roles' = roles \cup {adminRole}
        /\ BootAfter(r, "RoleCreate", NoError, "boot_grantrole")

BootGroupGrantRole(r) ==
  /\ pc[r] = "boot_grantrole"
  /\ UNCHANGED <<users, groups, groupUsers, roles, rolePerms, tokens>>
  /\ \/ \E e \in GroupGrantRoleErrors(adminGroup, adminRole) :
          /\ UNCHANGED groupRoles
          /\ BootAfter(r, "GroupGrantRole", e, "boot_perms")
     \/ /\ adminGroup \in groups /\ adminRole \in roles
        /\ groupRoles' = groupRoles \cup {<<adminGroup, adminRole>>}
        /\ BootAfter(r, "GroupGrantRole", NoError, "boot_perms")

\* One iteration of the loop over adminPermissions; after the last one the
\* user is encoded.
BootGrantPermission(r) ==
  /\ pc[r] = "boot_perms"
  /\ UNCHANGED <<users, groups, groupUsers, roles, groupRoles, tokens>>
  /\ \/ \E e \in RoleGrantPermissionErrors(adminRole) :
          /\ UNCHANGED rolePerms
          /\ BootAfter(r, "RoleGrantPermission", e, "boot_perms")
     \/ /\ adminRole \in roles
        /\ rolePerms' =
             rolePerms \cup {<<adminRole, "gort", adminPermissions[loc[r].i]>>}
        /\ LET l == Called(loc[r], "RoleGrantPermission", "ok") IN
           IF loc[r].i < Len(adminPermissions)
             THEN Step(r, "boot_perms", w[r], [l EXCEPT !.i = l.i + 1])
             ELSE Step(r, "log", jsonEncode(w[r], "user json"), l)

(***************************************************************************)
(* The end of a request.                                                   *)
(***************************************************************************)
\* Whether one of the handler's DAL calls returned an error.
DalFault(l) == \E k \in 1..Len(l.calls) : l.calls[k][2] = "error"

\* The goroutine of r ends; its caller got `status` (0: the connection was
\* closed without a response).
Release(r, status, l) ==
  /\ served' =
       [bootstrapped |->
          IF Route(req[r].uri) = "bootstrap" /\ status = StatusOK
            THEN served.bootstrapped + 1 ELSE served.bootstrapped,
        probeFault |->
          served.probeFault \/ (Route(req[r].uri) = "healthz" /\ DalFault(l))]
  /\ pc' = [pc EXCEPT ![r] = "done"]
  /\ req' = [req EXCEPT ![r] = NoReq]
  /\ w' = [w EXCEPT ![r] = NewWriter]
  /\ loc' = [loc EXCEPT ![r] = NewLoc]

(***************************************************************************)
(* handleHealthz                                                           *)
(***************************************************************************)
\* data.HashPassword, the test user, UserCreate and the response.  The
\* error of HashPassword is dropped: when it fails, testUsername is empty
\* and testUsername[:8] panics; net/http recovers the panic and closes the
\* connection, and nothing after next.ServeHTTP runs.
HealthzCreate(r) ==
  /\ pc[r] = "hz_create"
  /\ UNCHANGED <<groups, groupUsers, roles, groupRoles, rolePerms, tokens>>
  /\ \/ /\ UNCHANGED <<users, emitted, merr, mw, roleVars>>
        /\ Release(r, 0, loc[r])
     \/ \E name \in HealthzNames :
          LET l == [loc[r] EXCEPT !.user = name] IN
          \/ \E e \in UserCreateErrors(name) :
               /\ UNCHANGED users
               /\ Step(r, "log",
                       httpError(w[r], "{\"healthy\":false}\n",
                                 StatusServiceUnavailable),
                       Called(l, "UserCreate", "error"))
          \/ /\ name \notin users
             /\ users' = users \cup {name}
             /\ Step(r, "hz_defer", jsonEncode(w[r], "{\"healthy\":true}\n"),
                     Called(l, "UserCreate", "ok"))

\* Mutant: the deferred UserDelete is missing.
HealthzWithoutDelete(r) ==
  /\ pc[r] = "hz_defer"
  /\ UNCHANGED dalVars
  /\ Step(r, "log", w[r], loc[r])

\* Mutant: a failed UserDelete is reported to the caller.
HealthzReportingDelete(r) ==
  /\ pc[r] = "hz_defer"
  /\ UNCHANGED <<groups, groupUsers, roles, groupRoles, rolePerms, tokens>>
  /\ \/ \E e \in UserDeleteErrors(loc[r].user) :
          /\ UNCHANGED users
          /\ Step(r, "log", respondAndLogError(w[r], e),
                  Called(loc[r], "UserDelete", "error"))
     \/ /\ loc[r].user \in users
        /\ users' = users \ {loc[r].user}
        /\ Step(r, "log", w[r], Called(loc[r], "UserDelete", "ok"))

\* defer dataAccessLayer.UserDelete(ctx, testUser.Username): runs when the
\* handler returns; its result is dropped.
HealthzDeferredDelete(r) ==
  /\ pc[r] = "hz_defer"
  /\ UNCHANGED <<groups, groupUsers, roles, groupRoles, rolePerms, tokens>>
  /\ \/ \E e \in UserDeleteErrors(loc[r].user) :
          /\ UNCHANGED users
          /\ Step(r, "log", w[r], Called(loc[r], "UserDelete", "error"))
     \/ /\ loc[r].user \in users
        /\ users' = users \ {loc[r].user}
        /\ Step(r, "log", w[r], Called(loc[r], "UserDelete", "ok"))

(***************************************************************************)
(* buildLoggingMiddleware, second half: after next.ServeHTTP returned.     *)
(***************************************************************************)
\* The UserID of the event: "-" without a header, else the User of what
\* TokenRetrieveByToken returned (its error is dropped).
EventUserID(token) ==
  IF token = "" THEN "-" ELSE TokenRetrieveByToken(token).User

LogAssemble(r) ==
  /\ pc[r] = "log"
  /\ UNCHANGED dalVars
  /\ LET uri == req[r].uri
         e == [UserID |-> EventUserID(req[r].token),
               Request |-> <<Method(uri)>> \o uri \o <<"HTTP/1.1">>,
               Status |-> w[r].status,
               Size |-> w[r].bytelen]
     IN Step(r, "emit", w[r], [loc[r] EXCEPT !.e = e])

\* Mutant: the event is sent as soon as the handler chain has returned,
\* assembled or not.
EmitUnassembled(r) ==
  /\ pc[r] \in {"log", "emit"}
  /\ emitted' = [emitted EXCEPT ![r] = emitted[r] + 1]
  /\ Release(r, ActualStatus(w[r]), loc[r])
  /\ UNCHANGED <<dalVars, merr, mw, roleVars>>

\* logsous <- e: the channel is unbuffered, the send completes when the
\* receiver of Requests() takes the event.  The handler chain then returns
\* and net/http completes the response.
Emit(r) ==
  /\ pc[r] = "emit"
  /\ emitted' = [emitted EXCEPT ![r] = emitted[r] + 1]
  /\ Release(r, ActualStatus(w[r]), loc[r])
  /\ UNCHANGED <<dalVars, merr, mw, roleVars>>

Next ==
  \E r \in Reqs :
    \/ Receive(r)
    \/ Gate(r)
    \/ ServeMetrics(r)
    \/ ServeRole(r)
    \/ AuthUserExists(r)
    \/ AuthUserAuthenticate(r)
    \/ AuthTokenGenerate(r)
    \/ BootUserList(r)
    \/ BootUserCreate(r)
    \/ BootGroupCreate(r)
    \/ BootGroupAddUser(r)
    \/ BootRoleCreate(r)
    \/ BootGroupGrantRole(r)
    \/ BootGrantPermission(r)
    \/ HealthzCreate(r)
    \/ HealthzDeferredDelete(r)
    \/ LogAssemble(r)
    \/ Emit(r)

Spec == Init /\ [][Next]_vars

(***************************************************************************)
(* respondAndLogError on its own, over every error value.                  *)
(***************************************************************************)
MapError ==
  /\ merr = NoError
  /\ \E err \in ErrorValues :
       /\ merr' = err
       /\ mw' = respondAndLogError(NewWriter, err)
  /\ UNCHANGED <<dalVars, pc, req, w, loc, emitted, served, roleVars>>

MapperSpec == Init /\ [][MapError]_vars

(***************************************************************************)
(* A StatusCaptureWriter on its own, under the calls any handler behind    *)
(* the logging middleware may make: WriteHeader, and Write any number of   *)
(* times (a handler that streams its response in chunks, such as the       *)
(* metrics exporter).                                                      *)
(***************************************************************************)
\* Chunks a handler writes.
Payloads ==
  { "Unauthorized\n", "Forbidden\n", "Service already bootstrapped\n",
    "Corrupt JSON payload\n", "{\"healthy\":false}\n", "{\"healthy\":true}\n",
    "metrics text" }

WriterWriteHeader ==
  /\ mw.headerCalls = 0 /\ mw.body = << >>
  /\ \E statusCode \in {StatusOK, StatusNotFound, StatusInternalServerError} :
       mw' = SCW_WriteHeader(mw, statusCode)
  /\ UNCHANGED <<dalVars, pc, req, w, loc, emitted, served, merr, roleVars>>

WriterWrite ==
  /\ Len(mw.body) < MaxWrites
  /\ \E bytes \in Payloads : mw' = SCW_Write(mw, bytes)
  /\ UNCHANGED <<dalVars, pc, req, w, loc, emitted, served, merr, roleVars>>

WriterNext == WriterWriteHeader \/ WriterWrite

WriterSpec == Init /\ [][WriterNext]_vars

(***************************************************************************)
(* The role routes (addRoleMethodsToRouter), one request after another,    *)
(* each sent with the session token of the admin user and served to its    *)
(* end: the token check, the handler and its one response.  The handlers   *)
(* are those role-handlers_test.go exercises, on a DAL whose calls         *)
(* succeed.                                                                *)
(***************************************************************************)
\* The permissions a role holds.
GrantedTo(name) ==
  { p \in PermissionNames : <<name, testbundle, p>> \in rolePerms }

\* What a role route answers: the status the caller gets.
RoleAnswer(method, name, perm, nw) ==
  rresp' = [method |-> method, role |-> name, perm |-> perm,
            status |-> ActualStatus(nw), granted |-> GrantedTo(name)]

\* The request passes tokenObservingMiddleware, and nothing but the role
\* routes' state changes.
RoleRequestAdmitted(uri, token) ==
  /\ ~Exempt(uri) /\ ~TokenRejected(token)
  /\ UNCHANGED <<users, groups, groupUsers, groupRoles, tokens,
                 pc, req, w, loc, emitted, served, merr, mw>>

\* PUT /v2/roles/{rolename}
handlePutRole(name) ==
  /\ RoleRequestAdmitted(<<"/v2/roles/", name>>, "tok-admin")
  /\ rlast' = [rlast EXCEPT ![name] = "PUT"]
  /\ UNCHANGED rolePerms
  /\ IF name \in roles
       THEN /\ UNCHANGED roles
            /\ RoleAnswer("PUT", name, "",
                          httpError(NewWriter, ErrRoleExists.text, StatusConflict))
       ELSE /\ roles' = roles \cup {name}
            /\ RoleAnswer("PUT", name, "", SCW_WriteHeader(NewWriter, StatusOK))

\* DELETE /v2/roles/{rolename}: the role goes with what it was granted.
handleDeleteRole(name) ==
  /\ RoleRequestAdmitted(<<"/v2/roles/", name>>, "tok-admin")
  /\ rlast' = [rlast EXCEPT ![name] = "DELETE"]
  /\ IF name \in roles
       THEN /\ roles' = roles \ {name}
            /\ rolePerms' = { g \in rolePerms : g[1] # name }
            /\ RoleAnswer("DELETE", name, "", SCW_WriteHeader(NewWriter, StatusOK))
       ELSE /\ UNCHANGED <<roles, rolePerms>>
            /\ RoleAnswer("DELETE", name, "",
                          httpError(NewWriter, "No such role\n", StatusNotFound))

\* GET /v2/roles/{rolename}
handleGetRole(name) ==
  /\ RoleRequestAdmitted(<<"/v2/roles/", name>>, "tok-admin")
  /\ UNCHANGED <<roles, rolePerms, rlast>>
  /\ IF name \in roles
       THEN RoleAnswer("GET", name, "", jsonEncode(NewWriter, "role json"))
       ELSE RoleAnswer("GET", name, "",
                       httpError(NewWriter, "No such role\n", StatusNotFound))

\* Mutant: granting to a role that does not exist creates it.
GrantCreatingRole(name, perm) ==
  /\ RoleRequestAdmitted(<<"/v2/roles/", name, "/bundles/", testbundle,
                           "/permissions/", perm>>, "tok-admin")
  /\ UNCHANGED rlast
  /\ roles' = roles \cup {name}
  /\ rolePerms' = rolePerms \cup {<<name, testbundle, perm>>}
  /\ RoleAnswer("GRANT", name, perm, SCW_WriteHeader(NewWriter, StatusOK))

\* PUT /v2/roles/{rolename}/bundles/{bundlename}/permissions/{permissionname}
handleGrantRolePermission(name, perm) ==
  /\ RoleRequestAdmitted(<<"/v2/roles/", name, "/bundles/", testbundle,
                           "/permissions/", perm>>, "tok-admin")
  /\ UNCHANGED <<roles, rlast>>
  /\ IF name \in roles
       THEN /\ rolePerms' = rolePerms \cup {<<name, testbundle, perm>>}
            /\ RoleAnswer("GRANT", name, perm, SCW_WriteHeader(NewWriter, StatusOK))
       ELSE /\ UNCHANGED rolePerms
            /\ RoleAnswer("GRANT", name, perm,
                          httpError(NewWriter, "No such role\n", StatusNotFound))

\* Mutant: revoking what was not granted is an error.
RevokeRejectingUngranted(name, perm) ==
  /\ RoleRequestAdmitted(<<"/v2/roles/", name, "/bundles/", testbundle,
                           "/permissions/", perm>>, "tok-admin")
  /\ UNCHANGED <<roles, rlast>>
  /\ rolePerms' = rolePerms \ {<<name, testbundle, perm>>}
  /\ IF name \in roles /\ perm \in GrantedTo(name)
       THEN RoleAnswer("REVOKE", name, perm, SCW_WriteHeader(NewWriter, StatusOK))
       ELSE RoleAnswer("REVOKE", name, perm,
                       httpError(NewWriter, "No such permission\n", StatusNotFound))

\* DELETE /v2/roles/{rolename}/bundles/{bundlename}/permissions/{permissionname}
handleRevokeRolePermission(name, perm) ==
  /\ RoleRequestAdmitted(<<"/v2/roles/", name, "/bundles/", testbundle,
                           "/permissions/", perm>>, "tok-admin")
  /\ UNCHANGED <<roles, rlast>>
  /\ IF name \in roles
       THEN /\ rolePerms' = rolePerms \ {<<name, testbundle, perm>>}
            /\ RoleAnswer("REVOKE", name, perm, SCW_WriteHeader(NewWriter, StatusOK))
       ELSE /\ UNCHANGED rolePerms
            /\ RoleAnswer("REVOKE", name, perm,
                          httpError(NewWriter, "No such role\n", StatusNotFound))

RoleNext ==
  \E name \in RoleNames :
    \/ handlePutRole(name)
    \/ handleDeleteRole(name)
    \/ handleGetRole(name)
    \/ \E perm \in PermissionNames :
         \/ handleGrantRolePermission(name, perm)
         \/ handleRevokeRolePermission(name, perm)

RoleSpec == Init /\ [][RoleNext]_vars

(***************************************************************************)
(* Properties.                                                             *)
(***************************************************************************)
\* Requests whose handler chain is between the token check and the end.
PastGate == { r \in Reqs : pc[r] \notin {"idle", "gate", "done"} }

\* Requests whose handler chain has returned to the logging middleware.
Returned == { r \in Reqs : pc[r] \in {"log", "emit"} }

ExemptPaths ==
  { <<"/v2/authenticate">>, <<"/v2/bootstrap">>, <<"/v2/healthz">>,
    <<"/v2/metrics">> }

\* C1: a request to a non-exempt path whose X-Session-Token is absent or
\* fails TokenEvaluate when the token-observing middleware runs leaves that
\* middleware answered with exactly 401 and with next.ServeHTTP never
\* called; from there the chain only returns (no handler step follows), and
\* every request back in the logging middleware without a handler
\* invocation carries 401.
C1_UnauthorizedIsShortCircuited ==
  [][\A r \in Reqs :
       /\ ( /\ pc[r] = "gate" /\ pc'[r] # "gate"
            /\ SplitFirst(req[r].uri) \notin ExemptPaths
            /\ (req[r].token = "" \/ ~TokenEvaluate(req[r].token)) )
          => ( /\ pc'[r] = "log"
               /\ w'[r].code = StatusUnauthorized
               /\ w'[r].status = StatusUnauthorized
               /\ loc'[r].invoked = 0 )
       /\ (pc[r] \in {"log", "emit"} /\ loc[r].invoked = 0)
          => ( /\ w[r].code = StatusUnauthorized
               /\ pc'[r] \in {"log", "emit", "done"}
               /\ (pc'[r] # "done" => loc'[r].invoked = 0 /\ w'[r] = w[r]) )
  ]_vars

C1_Witness ==
  \E r \in Reqs :
    /\ pc[r] = "emit"
    /\ req[r] = [uri |-> <<"/v2/roles/foo", "?", "/v2/healthz">>, token |-> "bogus"]
    /\ w[r].code = StatusUnauthorized
    /\ loc[r].invoked = 0 /\ loc[r].storeCalls = 1

\* C2: a request whose path without the query string is an exempt path is
\* passed on by the token-observing middleware exactly once, without a call
\* of the token store and without a 401, whatever its X-Session-Token is.
C2_ExemptPassesUnchecked ==
  \A r \in PastGate :
    SplitFirst(req[r].uri) \in ExemptPaths
      => /\ loc[r].storeCalls = 0
         /\ loc[r].invoked = 1
         /\ w[r].code # StatusUnauthorized
         /\ w[r].status # StatusUnauthorized

C2_Witness ==
  \E r \in Reqs :
    /\ pc[r] = "hz_defer"
    /\ req[r] = [uri |-> <<"/v2/healthz", "?", "verbose">>, token |-> "bogus"]
    /\ loc[r].invoked = 1 /\ loc[r].storeCalls = 0

C4_RejectedWith409 ==
  [][\A r \in Reqs :
       (pc[r] = "boot_list" /\ pc'[r] # "boot_list" /\ users # {})
         => ( /\ pc'[r] = "log"
              /\ w'[r].code = StatusConflict
              /\ UNCHANGED dalVars )
  ]_vars

\* C4, amended: a bootstrap request that reaches its check while a user
\* exists makes no DAL call but UserList and changes nothing in the DAL; it
\* is answered 409 "Service already bootstrapped" when UserList succeeds
\* and the mapped status of UserList's error when it fails.  Once a
\* bootstrap request was answered 200 the admin user exists, so that a
\* later one is rejected in this way.
C4_RejectedWithoutMutation ==
  [][\A r \in Reqs :
       /\ (pc[r] = "boot_list" /\ pc'[r] # "boot_list" /\ users # {})
          => ( /\ pc'[r] = "log"
               /\ UNCHANGED dalVars
               /\ \/ /\ loc'[r].calls = << <<"UserList", "users">> >>
                     /\ w'[r].code = StatusConflict
                     /\ w'[r].body = << "Service already bootstrapped\n" >>
                  \/ /\ loc'[r].calls = << <<"UserList", "error">> >>
                     /\ w'[r].code = StatusInternalServerError )
       /\ ( /\ r \in Returned /\ Route(req[r].uri) = "bootstrap"
            /\ Len(loc[r].calls) = 1 /\ pc'[r] # pc[r] )
          => UNCHANGED dalVars
       /\ (served'.bootstrapped >= 1 => adminUser \in users')
  ]_vars

\* 200, then 409: a bootstrap request was answered 200, and a later one
\* was rejected.
C4_Witness ==
  /\ served.bootstrapped = 1
  /\ \E r \in Reqs :
       /\ pc[r] = "emit" /\ Route(req[r].uri) = "bootstrap"
       /\ loc[r].calls = << <<"UserList", "users">> >>
       /\ w[r].code = StatusConflict

\* C5: a request that entered the logging middleware and ended has had
\* exactly one RequestEvent sent to the channel.
C5_ExactlyOneEvent ==
  \A r \in Reqs : emitted[r] <= 1 /\ (pc[r] = "done" => emitted[r] = 1)

\* C6: the RequestEvents sent are as many as the requests that ended, and
\* the Status of the event built for a request is the status its caller
\* gets, its Size being that of the request's own writer.
C6_EventsMatchResponses ==
  /\ Cardinality({ r \in Reqs : pc[r] = "done" }) =
       Cardinality({ r \in Reqs : emitted[r] >= 1 })
  /\ \A r \in Reqs :
       pc[r] = "emit" => /\ loc[r].e.Status = ActualStatus(w[r])
                         /\ loc[r].e.Size = w[r].bytelen

\* The classes of the table of the error mapper, by sentinel.
TableClass(s) ==
  CASE s \in { "ErrEmptyBundleName", "ErrEmptyBundleVersion",
               "ErrEmptyGroupName", "ErrEmptyUserName", "ErrEmptyRoleName",
               "ErrMissingValue", "ErrFieldRequired" } -> StatusExpectationFailed
    [] s \in { "ErrNoSuchBundle", "ErrNoSuchGroup", "ErrNoSuchRole",
               "ErrNoSuchToken", "ErrNoSuchUser" } -> StatusNotFound
    [] s = "ErrAdminUndeletable" -> StatusForbidden
    [] s \in { "ErrBundleExists", "ErrGroupExists", "ErrRoleExists",
               "ErrUserExists" } -> StatusConflict
    [] s = "ErrNotImplemented" -> StatusNotImplemented
    [] s = "ErrUnmarshal" -> StatusNotAcceptable
    [] OTHER -> StatusInternalServerError

\* C7: for an error that is one sentinel, or none, respondAndLogError
\* writes one status line and one message, and the status is the one the
\* table gives the sentinel's class (500 for an error of no class).
C7_MapperMatchesTable ==
  (merr # NoError /\ Cardinality(merr.is) <= 1)
    => /\ mw.headerCalls = 1 /\ Len(mw.body) = 1
       /\ \A s \in merr.is : mw.code = TableClass(s)
       /\ (merr.is = {} => mw.code = StatusInternalServerError)

\* C8: /v2/authenticate answers 200 only with the token, after UserExists
\* and UserAuthenticate returned true and TokenGenerate succeeded; a DAL
\* call that failed gives 500.
C8_AuthenticateStatuses ==
  \A r \in Returned :
    Route(req[r].uri) = "authenticate"
      => /\ ActualStatus(w[r]) = StatusOK
            => /\ loc[r].calls = << <<"UserExists", "true">>,
                                    <<"UserAuthenticate", "true">>,
                                    <<"TokenGenerate", "ok">> >>
               /\ w[r].body = << "token json" >>
         /\ DalFault(loc[r]) => ActualStatus(w[r]) = StatusInternalServerError
         /\ loc[r].calls = << <<"UserExists", "false">> >>
            => ActualStatus(w[r]) = StatusBadRequest
         /\ ( Len(loc[r].calls) = 2 /\ loc[r].calls[2] = <<"UserAuthenticate", "false">> )
            => ActualStatus(w[r]) = StatusForbidden

\* C9: a health probe whose UserCreate and UserDelete succeeded answers 200
\* {"healthy":true}; and when no probe is in flight and no DAL call of a
\* probe has failed, no synthetic user is left among the users.
C9_ProbeLeavesNoUser ==
  /\ \A r \in Returned :
       ( /\ Route(req[r].uri) = "healthz"
         /\ loc[r].calls = << <<"UserCreate", "ok">>, <<"UserDelete", "ok">> >> )
       => /\ ActualStatus(w[r]) = StatusOK
          /\ w[r].body = << "{\"healthy\":true}\n" >>
  /\ (InFlightOn("healthz") = {} /\ ~served.probeFault)
       => users \cap HealthzNames = {}

\* Two probes have each created and deleted their user, and no synthetic
\* user is left.
C9_Witness ==
  /\ \E r, q \in Reqs :
       /\ r # q /\ pc[r] = "emit" /\ pc[q] = "emit"
       /\ \A x \in {r, q} :
            /\ Route(req[x].uri) = "healthz"
            /\ loc[x].calls = << <<"UserCreate", "ok">>, <<"UserDelete", "ok">> >>
            /\ ActualStatus(w[x]) = StatusOK
  /\ users \cap HealthzNames = {}

\* C10: what a health probe answers is decided by UserCreate alone: 200
\* {"healthy":true} when it succeeded, whatever UserDelete returns, and 503
\* {"healthy":false} with no UserDelete when it failed.
C10_ProbeStatusFromCreate ==
  \A r \in Reqs :
    (pc[r] \in {"hz_defer", "log", "emit"} /\ Route(req[r].uri) = "healthz")
      => /\ Len(loc[r].calls) >= 1
         /\ loc[r].calls[1] = <<"UserCreate", "ok">>
            => /\ w[r].code = StatusOK /\ w[r].status = StatusOK
               /\ w[r].body = << "{\"healthy\":true}\n" >>
               /\ \A k \in 2..Len(loc[r].calls) : loc[r].calls[k][1] = "UserDelete"
               /\ Len(loc[r].calls) <= 2
               /\ (pc[r] # "hz_defer" => Len(loc[r].calls) = 2)
         /\ loc[r].calls[1] # <<"UserCreate", "ok">>
            => /\ loc[r].calls = << <<"UserCreate", "error">> >>
               /\ w[r].code = StatusServiceUnavailable
               /\ w[r].status = StatusServiceUnavailable
               /\ w[r].body = << "{\"healthy\":false}\n" >>

\* A probe's UserDelete failed after it had answered 200.
C10_Witness ==
  \E r \in Reqs :
    /\ pc[r] = "log" /\ Route(req[r].uri) = "healthz"
    /\ loc[r].calls = << <<"UserCreate", "ok">>, <<"UserDelete", "error">> >>
    /\ w[r].code = StatusOK

\* The bytes handed to Write, over the chunks of a body.
RECURSIVE SumLen(_)
SumLen(body) ==
  IF body = << >> THEN 0 ELSE ByteLen(Head(body)) + SumLen(Tail(body))

\* Requests to a role route that were answered.
RoleAnswered == rresp # NoRoleResponse

\* C11: after any sequence of PUT and DELETE requests on role names, a GET,
\* a grant and a revoke addressed to a name are answered 200 when the last
\* PUT or DELETE of that name was a PUT, and 404 when there was none or it
\* was a DELETE; the roles that exist are those whose last PUT or DELETE
\* was a PUT, so that no grant or revoke has created one.
C11_RoleFollowsLastPutOrDelete ==
  /\ \A n \in RoleNames : n \in roles <=> rlast[n] = "PUT"
  /\ (RoleAnswered /\ rresp.method \in {"GET", "GRANT", "REVOKE"})
       => rresp.status = IF rlast[rresp.role] = "PUT" THEN StatusOK
                         ELSE StatusNotFound

\* A role was created, then deleted; a grant addressed to it afterwards was
\* answered 404 and did not bring it back, while another role exists.
C11_Witness ==
  /\ rlast["foo"] = "DELETE" /\ rlast["bar"] = "PUT"
  /\ rresp.method = "GRANT" /\ rresp.role = "foo"
  /\ rresp.status = StatusNotFound
  /\ "foo" \notin roles /\ "bar" \in roles

\* C12: a revoke addressed to an existing role of a permission the role
\* did not hold is answered 200 and leaves what the role holds as it was.
C12_RevokeUngrantedSucceeds ==
  ( /\ RoleAnswered /\ rresp.method = "REVOKE"
    /\ rlast[rresp.role] = "PUT"
    /\ rresp.perm \notin rresp.granted )
  => /\ rresp.status = StatusOK
     /\ GrantedTo(rresp.role) = rresp.granted

\* A role holds one permission; the revoke of another one was answered
\* 200 and the role still holds the first.
C12_Witness ==
  /\ rresp.method = "REVOKE" /\ rresp.role = "foo"
  /\ rresp.perm = "testpermission2" /\ rresp.status = StatusOK
  /\ rresp.granted = {"testpermission"}
  /\ GrantedTo("foo") = {"testpermission"}

\* C13: the byte count the StatusCaptureWriter has recorded, which is the
\* Size of the RequestEvent, is the total of the bytes passed to Write over
\* all the Write calls made on it.
C13_SizeIsTotalWritten == mw.bytelen = SumLen(mw.body)

\* The DAL calls of a bootstrap after UserList, in the order of the code.
BootOrder ==
  << "UserCreate", "GroupCreate", "GroupAddUser", "RoleCreate",
     "GroupGrantRole" >> \o [k \in 1..Len(adminPermissions) |-> "RoleGrantPermission"]

\* The errors a DAL call of a bootstrap can return.
BootStepErrors(op) ==
  DalFailures \cup
    CASE op = "UserCreate" -> {ErrUserExists}
      [] op = "GroupCreate" -> {ErrGroupExists}
      [] op = "GroupAddUser" -> {ErrNoSuchGroup, ErrNoSuchUser}
      [] op = "RoleCreate" -> {ErrRoleExists}
      [] op = "GroupGrantRole" -> {ErrNoSuchGroup, ErrNoSuchRole}
      [] OTHER -> {ErrNoSuchRole}

\* What the k-th call of BootOrder leaves in the DAL when it succeeds.
BootEffectPresent(k) ==
  CASE k = 1 -> adminUser \in users
    [] k = 2 -> adminGroup \in groups
    [] k = 3 -> <<adminGroup, adminUser>> \in groupUsers
    [] k = 4 -> adminRole \in roles
    [] k = 5 -> <<adminGroup, adminRole>> \in groupRoles
    [] OTHER -> <<adminRole, "gort", adminPermissions[k - 5]>> \in rolePerms

\* Bootstrap requests that found no user, with the calls made after
\* UserList.
Provisioning ==
  { r \in Reqs : /\ Route(req[r].uri) = "bootstrap"
                 /\ Len(loc[r].calls) >= 1
                 /\ loc[r].calls[1] = <<"UserList", "empty">> }

StepsOf(r) == Tail(loc[r].calls)

\* C14: a bootstrap that found no user makes its DAL calls in the order
\* create user, create group, add user to group, create role, grant role
\* to group, grant the four permissions; every call but the last made has
\* succeeded; a call that failed is the last one, the handler has returned
\* with that call's mapped error as its one response, which is not 200;
\* 200 is answered after all nine calls only; and what the calls that
\* succeeded created is in the DAL, also after a later call failed.
C14_BootstrapStepsInOrder ==
  \A r \in Provisioning :
    LET steps == StepsOf(r)
        n == Len(steps)
    IN /\ n <= Len(BootOrder)
       /\ \A k \in 1..n : steps[k][1] = BootOrder[k]
       /\ \A k \in 1..(n - 1) : steps[k][2] = "ok"
       /\ \A k \in 1..n : steps[k][2] = "ok" => BootEffectPresent(k)
       /\ (n >= 1 /\ steps[n][2] = "error")
            => /\ pc[r] \in {"log", "emit"}
               /\ w[r].code # StatusOK
               /\ w[r].headerCalls = 1
               /\ \E e \in BootStepErrors(steps[n][1]) :
                    /\ w[r].code = SwitchStatus(e)
                    /\ w[r].body = << SwitchMessage(e) >>
       /\ w[r].code = StatusOK
            => /\ n = Len(BootOrder)
               /\ \A k \in 1..n : steps[k][2] = "ok"

\* A bootstrap has created the user and the group, and failed to add the
\* user to the group: it answered 500, and user and group are still there.
C14_Witness ==
  \E r \in Provisioning :
    /\ pc[r] = "emit"
    /\ StepsOf(r) = << <<"UserCreate", "ok">>, <<"GroupCreate", "ok">>,
                       <<"GroupAddUser", "error">> >>
    /\ w[r].code = StatusInternalServerError
    /\ adminUser \in users /\ adminGroup \in groups
    /\ groupUsers = {} /\ roles = {}

\* C15: when the logging middleware assembles the RequestEvent, the UserID
\* it records is the user the token store binds to the X-Session-Token,
\* and "-" when the header is absent or the store does not know the token;
\* the lookup leaves the response as it was, and the event goes on to be
\* sent.
C15_EventIdentity ==
  [][\A r \in Reqs :
       (pc[r] = "log" /\ pc'[r] # "log")
         => /\ pc'[r] = "emit"
            /\ w'[r] = w[r]
            /\ loc'[r].e.Status = w[r].status
            /\ loc'[r].e.UserID =
                 IF \E t \in tokens : t.Token = req[r].token
                   THEN (CHOOSE t \in tokens : t.Token = req[r].token).User
                   ELSE "-"
  ]_vars

\* The sentinels of the storage class of the error mapper's table.
StorageSentinels ==
  { "ErrDataAccessNotInitialized", "ErrDataAccessCantInitialize",
    "ErrDataAccessCantConnect", "ErrDataAccess" }

\* C16: for a storage error and for an error of no class the mapper
\* answers 500 with a body that does not depend on the text of the error:
\* the same error with any other text gets the same body; for a malformed
\* payload the body is the fixed "Corrupt JSON payload".
C16_BodyIndependentOfErrorText ==
  /\ (merr # NoError /\ merr.is \subseteq StorageSentinels)
       => /\ mw.code = StatusInternalServerError
          /\ \A t \in ErrorTexts :
               respondAndLogError(NewWriter, [merr EXCEPT !.text = t]).body = mw.body
  /\ merr.is = {"ErrUnmarshal"}
       => mw.body = << "Corrupt JSON payload\n" >>

\* Where a goroutine is while the handler chain (the token check and the
\* handler, with its deferred calls) runs.
InChain ==
  { "gate", "metrics", "roles", "auth_exists", "auth_authn", "auth_token",
    "boot_list", "boot_user", "boot_group", "boot_adduser", "boot_role",
    "boot_grantrole", "boot_perms", "hz_create", "hz_defer" }

\* C17: within a request, the writer records status and bytes only while
\* the handler chain runs; the RequestEvent is assembled only after the
\* chain has returned, from what the writer recorded, and once; it is sent
\* only after it was assembled, and once.  (Nothing relates the steps of
\* two requests.)
C17_RecordAssembleEmit ==
  [][\A r \in Reqs :
       /\ (w'[r] # w[r] /\ pc'[r] # "done" /\ pc[r] # "idle") => pc[r] \in InChain
       /\ (pc'[r] = "log" /\ pc[r] # "log")
            => pc[r] \in InChain /\ loc'[r].e = NoEvent
       /\ (loc'[r].e # loc[r].e /\ pc'[r] # "done")
            => /\ pc[r] = "log" /\ pc'[r] = "emit"
               /\ loc[r].e = NoEvent
               /\ loc'[r].e.Status = w[r].status
               /\ loc'[r].e.Size = w[r].bytelen
               /\ w'[r] = w[r]
       /\ (pc'[r] = "emit" /\ pc[r] # "emit") => pc[r] = "log"
       /\ emitted'[r] # emitted[r]
            => /\ pc[r] = "emit" /\ pc'[r] = "done"
               /\ emitted[r] = 0 /\ emitted'[r] = 1
               /\ loc[r].e # NoEvent
               /\ loc[r].e.Status = w[r].status
  ]_vars

\* The second request was received after the first and its event has been
\* sent, while the event of the first is assembled and not yet sent.
C17_Witness ==
  /\ pc[1] = "emit" /\ emitted[1] = 0 /\ loc[1].e # NoEvent
  /\ pc[2] = "done" /\ emitted[2] = 1

\* C18: the goroutine of a request ends only in the step in which the
\* receiver of Requests() takes the request's RequestEvent from the
\* channel: without that hand-off no request ends.
C18_EndsOnlyByHandOff ==
  [][\A r \in Reqs :
       (pc'[r] = "done" /\ pc[r] # "done")
         => pc[r] = "emit" /\ emitted'[r] = emitted[r] + 1
  ]_vars

\* C19: a bootstrap request that makes its check while no user but the
\* synthetic users of health probes exists does not see a user list with
\* users in it and is not answered 409.
C19_ProbesDoNotBlockBootstrap ==
  [][\A r \in Reqs :
       ( /\ pc[r] = "boot_list" /\ pc'[r] # "boot_list"
         /\ users \subseteq HealthzNames )
       => /\ w'[r].code # StatusConflict
          /\ loc'[r].calls # << <<"UserList", "users">> >>
  ]_vars

\* The parts of the admin bundle that are in the DAL.
BundleComplete ==
  /\ adminUser \in users /\ adminGroup \in groups
  /\ <<adminGroup, adminUser>> \in groupUsers
  /\ adminRole \in roles /\ <<adminGroup, adminRole>> \in groupRoles
  /\ \A k \in 1..Len(adminPermissions) :
       <<adminRole, "gort", adminPermissions[k]>> \in rolePerms

\* A bootstrap has created the admin user and has failed at a later step:
\* the user exists, the bundle is not complete, and no bootstrap is
\* between its UserCreate and its end.
PartiallyBootstrapped ==
  /\ adminUser \in users /\ ~BundleComplete
  /\ \A r \in Reqs :
       pc[r] \notin { "boot_group", "boot_adduser", "boot_role",
                      "boot_grantrole", "boot_perms" }

BundleUnchanged ==
  /\ adminUser \in users'
  /\ UNCHANGED <<groups, groupUsers, roles, groupRoles, rolePerms>>

\* C20 as stated: after a bootstrap has failed past the creation of the
\* admin user, a bootstrap request is answered 409 and changes nothing in
\* the DAL.
C20_LaterBootstrapGets409 ==
  [][PartiallyBootstrapped =>
       \A r \in Reqs :
         (pc[r] \in {"boot_list", "boot_user"} /\ pc'[r] # pc[r])
           => /\ pc'[r] = "log"
              /\ w'[r].code = StatusConflict
              /\ UNCHANGED dalVars
  ]_vars

\* C20, amended: after a bootstrap has failed past the creation of the
\* admin user, no step creates a missing part of the admin bundle, and the
\* deployment stays as it is, the user without the full bundle; a
\* bootstrap request then ends at its UserList, answered 409 "Service
\* already bootstrapped" or, when UserList fails, that error's mapped
\* status (a request that had made its check before the user was created
\* ends at its UserCreate in the same way), with nothing changed in the
\* DAL.
C20_PartialBundleIsNeverCompleted ==
  [][PartiallyBootstrapped =>
       /\ PartiallyBootstrapped'
       /\ BundleUnchanged
       /\ \A r \in Reqs :
            /\ (pc[r] = "boot_list" /\ pc'[r] # pc[r])
                 => /\ pc'[r] = "log" /\ UNCHANGED dalVars
                    /\ \/ /\ loc'[r].calls = << <<"UserList", "users">> >>
                          /\ w'[r].code = StatusConflict
                       \/ /\ loc'[r].calls = << <<"UserList", "error">> >>
                          /\ w'[r].code = StatusInternalServerError
            /\ (pc[r] = "boot_user" /\ pc'[r] # pc[r])
                 => /\ pc'[r] = "log" /\ UNCHANGED dalVars
                    /\ w'[r].code \in {StatusConflict, StatusInternalServerError}
  ]_vars

\* A bootstrap created the admin user and failed at GroupCreate; a later
\* bootstrap request was answered 409, and there is still no admin group.
C20_Witness ==
  /\ PartiallyBootstrapped
  /\ groups = {} /\ roles = {}
  /\ served.bootstrapped = 0
  /\ \E r \in Reqs :
       /\ pc[r] = "emit" /\ Route(req[r].uri) = "bootstrap"
       /\ loc[r].calls = << <<"UserList", "users">> >>
       /\ w[r].code = StatusConflict

====
